---- MODULE Spec2Model ----
(***************************************************************************)
(* Model of the ANLP-Mailsense e-mail classification service.              *)
(*                                                                         *)
(*   src/mail_classifier.py  EmailClassifier: asset loading, preprocessing *)
(*                           and the sequential Spam -> Multilabel pipeline*)
(*   src/interface.py        module-level start-up and the /classify       *)
(*                           endpoint                                      *)
(*                                                                         *)
(* Three specifications are defined:                                       *)
(*   Spec       the service: start-up (asset loading), then request        *)
(*              handlers running classify step by step, interleaved;       *)
(*   SpecPre    _preprocess_email applied to every text over a small       *)
(*              alphabet, for every modelled lemmatizer;                   *)
(*   SpecLabel  the decision part of classify applied to every spam        *)
(*              prediction and every probability vector of a grid.         *)
(*                                                                         *)
(* Texts are sequences of one-character strings, words likewise.           *)
(* Probabilities are integers in hundredths (30 is 0.30).                  *)
(***************************************************************************)
EXTENDS Integers, Sequences, FiniteSets, TLC

VARIABLES
    \* ---- the service (Spec) ----
    disk,             \* the four artifact files under model_assets
    proc,             \* "starting" | "serving" | "crashed"
    loadIdx,          \* index of the next artifact _load_pipeline_assets opens
    assets,           \* attributes spam_vec, spam_clf, ml_vec, ml_clf of the object
    classifier,       \* module-level name in interface.py: "unbound"|"None"|"ready"
    loadError,        \* the exception that ended loading, if any
    lemmatizer,       \* self.lemmatizer: the lemma dictionary it consults
    pc,               \* per handler: position inside classify_email / classify
    email_text,       \* per handler: input.email_text
    email_tokens,     \* per handler: local email_tokens
    X_spam,           \* per handler: local X_spam
    spam_prediction,  \* per handler: local spam_prediction
    X_multilabel,     \* per handler: local X_multilabel
    response,         \* per handler: value returned by classify_email
    log,              \* per handler: stages invoked by the current call, in order
    \* ---- pure-function specifications (SpecPre, SpecLabel) ----
    arg,              \* the argument(s) of the function under study
    tokens,           \* local `tokens` of _preprocess_email
    ret,              \* the value returned
    phase             \* position inside the function under study

vars == <<disk, proc, loadIdx, assets, classifier, loadError, lemmatizer,
          pc, email_text, email_tokens, X_spam, spam_prediction,
          X_multilabel, response, log, arg, tokens, ret, phase>>

serverVars == <<disk, proc, loadIdx, assets, classifier, loadError,
                pc, email_text, email_tokens, X_spam, spam_prediction,
                X_multilabel, response, log>>

pureVars == <<arg, tokens, ret, phase>>

-----------------------------------------------------------------------------
(* Bounds *)

\* longest raw text enumerated in SpecPre
MaxLen == 4

\* number of request handlers that may be inside classify_email at once
NumClients == 2

\* number of categories whose probability differs from the background value
MaxActive == 2

-----------------------------------------------------------------------------
(* Text preprocessing: EmailClassifier._preprocess_email *)

Letters == {"a", "n", "s", "w"}
Uppers == {"A"}
Puncts == {"!"}
Spaces == {" "}
Alphabet == Letters \cup Uppers \cup Puncts \cup Spaces

\* str.lower() on the modelled alphabet
Lower(ch) == IF ch = "A" THEN "a" ELSE ch

lower(s) == [i \in 1..Len(s) |-> Lower(s[i])]

\* re.sub(r"[^a-z0-9\s]", " ", text)
re_sub(s) == [i \in 1..Len(s) |-> IF s[i] \in Letters \cup Spaces THEN s[i] ELSE " "]

RECURSIVE SplitWs(_, _, _)
\* split a text on runs of whitespace
SplitWs(s, cur, acc) ==
    IF s = <<>>
    THEN IF cur = <<>> THEN acc ELSE Append(acc, cur)
    ELSE IF Head(s) \in Spaces
         THEN SplitWs(Tail(s), <<>>, IF cur = <<>> THEN acc ELSE Append(acc, cur))
         ELSE SplitWs(Tail(s), Append(cur, Head(s)), acc)

\* Treebank contraction rule of nltk.word_tokenize that is expressible over
\* Letters: the word "wanna" is split into "wan" and "na".
Contraction(w) ==
    IF w = <<"w", "a", "n", "n", "a">>
    THEN << <<"w", "a", "n">>, <<"n", "a">> >>
    ELSE <<w>>

RECURSIVE Flatten(_)
Flatten(ss) == IF ss = <<>> THEN <<>> ELSE Head(ss) \o Flatten(Tail(ss))

\* nltk.word_tokenize on a text that holds only [a-z0-9] and whitespace
word_tokenize(s) ==
    LET ws == SplitWs(s, <<>>, <<>>)
    IN  Flatten([i \in 1..Len(ws) |-> Contraction(ws[i])])

\* stopwords.words("english") restricted to words over Letters
stop_words == { <<"a">>, <<"a", "n">>, <<"a", "s">>, <<"s">>,
                <<"w", "a", "s">>, <<"w", "a", "s", "n">> }

KeepTokenShort(t) == t \notin stop_words /\ Len(t) > 1

\* the condition of the list comprehension that drops stopwords and short tokens
KeepToken(t) == t \notin stop_words /\ Len(t) > 2

FilterTokens(ts) == SelectSeq(ts, KeepToken)

\* lemma dictionaries the lemmatizer may consult (WordNet restricted to Letters)
LemmaWords == { <<"a", "s">>, <<"a", "n">> }
Lemmatizers == SUBSET LemmaWords
WordNet == LemmaWords

Detach(w) ==
    IF Len(w) > 1 /\ w[Len(w)] = "s" THEN SubSeq(w, 1, Len(w) - 1) ELSE w

\* WordNetLemmatizer.lemmatize: the shortest form among the word and the word
\* without its plural ending that is in the dictionary; the word itself if
\* neither is.
lemmatize(dict, w) ==
    IF Detach(w) \in dict THEN Detach(w) ELSE w

Lemmas(dict, ts) == [i \in 1..Len(ts) |-> lemmatize(dict, ts[i])]

\* a raw input: a string (isstr) with its characters, or some other value
Text(chars) == [isstr |-> TRUE, chars |-> chars]
NonString == [isstr |-> FALSE, chars |-> <<>>]

\* lines up to the tokenizer
Normalize(text) == word_tokenize(re_sub(lower(text.chars)))

_preprocess_email(dict, text) ==
    IF ~text.isstr THEN <<>>
    ELSE Lemmas(dict, FilterTokens(Normalize(text)))

-----------------------------------------------------------------------------
(* Thresholding and fallback: the tail of EmailClassifier.classify *)

MULTILABEL_CLASSES ==
    << "Business", "Reminders", "Events & Invitations", "Finance & Bills",
       "Travel & Bookings", "Customer Support", "Newsletters", "Personal",
       "Job Application", "Promotions" >>

Classes == 1..Len(MULTILABEL_CLASSES)

THRESHOLD == 30

BinarizeStrict(p) == [i \in DOMAIN p |-> IF p[i] > THRESHOLD THEN 1 ELSE 0]

\* (y_pred_proba >= THRESHOLD).astype(int)
Binarize(p) == [i \in DOMAIN p |-> IF p[i] >= THRESHOLD THEN 1 ELSE 0]

RECURSIVE SumSeq(_)
SumSeq(s) == IF s = <<>> THEN 0 ELSE Head(s) + SumSeq(Tail(s))

ArgMaxLast(p) ==
    CHOOSE i \in DOMAIN p :
        /\ \A j \in DOMAIN p : p[j] <= p[i]
        /\ \A j \in DOMAIN p : j > i => p[j] < p[i]

\* np.argmax: the first index that holds the maximum
ArgMax(p) ==
    CHOOSE i \in DOMAIN p :
        /\ \A j \in DOMAIN p : p[j] <= p[i]
        /\ \A j \in DOMAIN p : j < i => p[j] < p[i]

NoFallback(p) == Binarize(p)

\* y_pred_bin_thresh after the fallback for a row without any label
WithFallback(p) ==
    LET b == Binarize(p)
    IN  IF SumSeq(b) = 0 THEN [b EXCEPT ![ArgMax(p)] = 1] ELSE b

RECURSIVE LabelsFrom(_, _)
\* [MULTILABEL_CLASSES[i] for i, val in enumerate(row) if val == 1], from index i on
LabelsFrom(b, i) ==
    IF i > Len(b) THEN <<>>
    ELSE (IF b[i] = 1 THEN <<MULTILABEL_CLASSES[i]>> ELSE <<>>) \o LabelsFrom(b, i + 1)

predicted_labels(p) == LabelsFrom(WithFallback(p), 1)

SpamResult == [primary_classification |-> "Spam", detailed_labels |-> <<>>]

NoSpamResult(p) ==
    [primary_classification |-> "No-Spam", detailed_labels |-> predicted_labels(p)]

\* what classify returns once the spam prediction and, for a non-spam
\* e-mail, the probability row are known
ClassifyReturn(pred, p) == IF pred = 1 THEN SpamResult ELSE NoSpamResult(p)

\* the probability grid: a background value everywhere except on at most
\* MaxActive categories, which take values around the threshold
ProbBases == {5, 60}
ProbValues == {THRESHOLD - 2, THRESHOLD - 1, THRESHOLD, THRESHOLD + 1}

ProbVectors ==
    UNION { UNION { { [i \in Classes |-> IF i \in S THEN g[i] ELSE b] :
                      g \in [S -> ProbValues] } :
                    S \in {T \in SUBSET Classes : Cardinality(T) <= MaxActive} } :
            b \in ProbBases }

-----------------------------------------------------------------------------
(* Values shared by the specifications *)

Clients == 1..NumClients

Unset == [type |-> "unset"]
NoError == [type |-> "none", names |-> ""]
NoResponse == [type |-> "none"]

IdleServer ==
    /\ disk = <<>>
    /\ proc = "starting"
    /\ loadIdx = 0
    /\ assets = <<>>
    /\ classifier = "unbound"
    /\ loadError = NoError
    /\ pc = [c \in Clients |-> "idle"]
    /\ email_text = [c \in Clients |-> Text(<<>>)]
    /\ email_tokens = [c \in Clients |-> <<>>]
    /\ X_spam = [c \in Clients |-> Unset]
    /\ spam_prediction = [c \in Clients |-> 0]
    /\ X_multilabel = [c \in Clients |-> Unset]
    /\ response = [c \in Clients |-> NoResponse]
    /\ log = [c \in Clients |-> <<>>]

-----------------------------------------------------------------------------
(* SpecPre: _preprocess_email on every text *)

RECURSIVE TextsOfLen(_)
TextsOfLen(n) ==
    IF n = 0 THEN { <<>> }
    ELSE { Append(s, ch) : s \in TextsOfLen(n - 1), ch \in Alphabet }

RawTexts == UNION { TextsOfLen(n) : n \in 0..MaxLen }

InitPre ==
    /\ IdleServer
    /\ lemmatizer \in Lemmatizers
    /\ arg \in {Text(s) : s \in RawTexts} \cup {NonString}
    /\ tokens = <<>>
    /\ ret = <<>>
    /\ phase = "start"

\* the isinstance check, lower(), re.sub and word_tokenize
PreNormalize ==
    /\ phase = "start"
    /\ IF ~arg.isstr
       THEN /\ phase' = "done"
            /\ ret' = <<>>
            /\ UNCHANGED tokens
       ELSE /\ phase' = "tokenized"
            /\ tokens' = Normalize(arg)
            /\ UNCHANGED ret
    /\ UNCHANGED <<arg, lemmatizer, serverVars>>

\* tokens = [t for t in tokens if t not in self.stop_words and len(t) > 2]
PreFilter ==
    /\ phase = "tokenized"
    /\ tokens' = FilterTokens(tokens)
    /\ phase' = "filtered"
    /\ UNCHANGED <<arg, ret, lemmatizer, serverVars>>

\* lemmas = [self.lemmatizer.lemmatize(t) for t in tokens]; return lemmas
PreLemmatize ==
    /\ phase = "filtered"
    /\ ret' = Lemmas(lemmatizer, tokens)
    /\ phase' = "done"
    /\ UNCHANGED <<arg, tokens, lemmatizer, serverVars>>

NextPre == PreNormalize \/ PreFilter \/ PreLemmatize

SpecPre == InitPre /\ [][NextPre]_vars

-----------------------------------------------------------------------------
(* SpecLabel: the decision part of classify on every prediction *)

InitLabel ==
    /\ IdleServer
    /\ lemmatizer = WordNet
    /\ arg \in [spam_prediction : {0, 1}, y_pred_proba : ProbVectors]
    /\ tokens = <<>>
    /\ ret = NoResponse
    /\ phase = "start"

\* from `if spam_prediction == 1` to the final return
ApplyLabel ==
    /\ phase = "start"
    /\ ret' = ClassifyReturn(arg.spam_prediction, arg.y_pred_proba)
    /\ phase' = "done"
    /\ UNCHANGED <<arg, tokens, lemmatizer, serverVars>>

NextLabel == ApplyLabel

SpecLabel == InitLabel /\ [][NextLabel]_vars

-----------------------------------------------------------------------------
(* The service: artifacts, estimators and the values handlers return *)

\* file names opened by _load_pipeline_assets, in the order it opens them
Artifacts == << "spam_vectorizer.pkl", "spam_model.pkl",
                "multilabel_vectorizer.pkl", "multilabel_model.pkl" >>

\* the attribute each artifact is unpickled into
Attrs == << "spam_vec", "spam_clf", "ml_vec", "ml_clf" >>

NoAssets == [a \in {Attrs[i] : i \in 1..Len(Attrs)} |-> Unset]

\* a fitted vectorizer with its vocabulary, a fitted model with its decision
\* table, and a pickled object that is neither (any use raises)
Vectorizer(vocab) == [type |-> "vectorizer", vocab |-> vocab]
Model(table) == [type |-> "model", table |-> table]
WrongType == [type |-> "other"]

Count(w, ts) == Cardinality({i \in 1..Len(ts) : ts[i] = w})

\* vec.transform([email_tokens]): the row of term counts over the vocabulary
transform(vec, ts) == [w \in vec.vocab |-> Count(w, ts)]

\* clf.predict(X)[0] and clf.predict_proba(X)
predict(clf, X) == clf.table[X]

\* the texts clients send
EmailInputs == { Text(<<>>),
                 Text(<<"w", "a", "n">>),
                 Text(<<"A", "s", "s", "!">>) }

SpamVocab == { <<"w", "a", "n">> }
TopicVocab == { <<"a", "s">> }

TokenSeqs == { _preprocess_email(WordNet, t) : t \in EmailInputs }
SpamFeatures == { transform(Vectorizer(SpamVocab), ts) : ts \in TokenSeqs }
TopicFeatures == { transform(Vectorizer(TopicVocab), ts) : ts \in TokenSeqs }

\* two rows a topic model may answer: one with categories at and above the
\* threshold, one with every category below it
ProbAbove == [i \in Classes |-> IF i = 4 THEN THRESHOLD ELSE IF i = 10 THEN 60 ELSE 5]
ProbBelow == [i \in Classes |-> IF i \in {3, 7} THEN THRESHOLD - 1 ELSE 5]
ProbSamples == {ProbAbove, ProbBelow}

SpamModels == { Model(t) : t \in [SpamFeatures -> {0, 1}] }
TopicModels == { Model(t) : t \in [TopicFeatures -> ProbSamples] }

BadStatuses == {"missing", "unreadable", "corrupt"}

\* what may be found on disk where an artifact is expected
FileContents(objs) ==
    { [status |-> s, obj |-> Unset] : s \in BadStatuses }
    \cup { [status |-> "ok", obj |-> o] : o \in objs \cup {WrongType} }

\* the exception open()/pickle.load raise on a file, as it leaves
\* _load_pipeline_assets: a missing file is re-raised as the
\* "Required model asset not found" FileNotFoundError naming the file; the
\* others pass through the except clause unchanged
LoadException(i) ==
    CASE disk[i].status = "missing" ->
            [type |-> "FileNotFoundError", names |-> Artifacts[i]]
      [] disk[i].status = "unreadable" ->
            [type |-> "PermissionError", names |-> Artifacts[i]]
      [] disk[i].status = "corrupt" ->
            [type |-> "UnpicklingError", names |-> ""]
      [] OTHER -> NoError

StartupKeepsObject(err) == [classifier |-> "ready", proc |-> "serving"]

\* the try/except around EmailClassifier(...) at module level
StartupOutcome(err) ==
    IF err.type = "FileNotFoundError"
    THEN [classifier |-> "None", proc |-> "serving"]
    ELSE [classifier |-> "unbound", proc |-> "crashed"]

\* return {"error": "Server failed to load ..."}, 500
AssetsUnavailable ==
    [body |-> [error |-> "Server failed to load machine learning assets on startup."],
     status |-> 500]

ExceptionPropagates(e) == [unhandled |-> e]

\* except Exception as e: return {"error": f"An error occurred ...: {str(e)}"}
ExceptionResponse(e) ==
    [error |-> <<"An error occurred during classification: ", e>>]

ReturnAfterSpamAlwaysContinues(pred) == "ml_vec"

\* if spam_prediction == 1: return ... ; otherwise fall through to stage 2
AfterSpam(pred) == IF pred = 1 THEN "return" ELSE "ml_vec"

TopicStageInputShared(c) ==
    email_tokens[CHOOSE d \in Clients :
                    /\ pc[d] \notin {"idle", "preprocess"}
                    /\ \A e \in Clients : pc[e] \notin {"idle", "preprocess"} => d <= e]

\* the token list handed to the second vectorizer: the caller's own local
TopicStageInput(c) == email_tokens[c]

-----------------------------------------------------------------------------
(* Spec: start-up, then request handlers *)

Init ==
    /\ disk \in FileContents({Vectorizer(SpamVocab)}) \X FileContents(SpamModels)
                \X FileContents({Vectorizer(TopicVocab)}) \X FileContents(TopicModels)
    /\ proc = "starting"
    /\ loadIdx = 1
    /\ assets = NoAssets
    /\ classifier = "unbound"
    /\ loadError = NoError
    /\ lemmatizer = WordNet
    /\ pc = [c \in Clients |-> "idle"]
    /\ email_text = [c \in Clients |-> Text(<<>>)]
    /\ email_tokens = [c \in Clients |-> <<>>]
    /\ X_spam = [c \in Clients |-> Unset]
    /\ spam_prediction = [c \in Clients |-> 0]
    /\ X_multilabel = [c \in Clients |-> Unset]
    /\ response = [c \in Clients |-> NoResponse]
    /\ log = [c \in Clients |-> <<>>]
    /\ arg = NonString
    /\ tokens = <<>>
    /\ ret = <<>>
    /\ phase = "start"

requestVars == <<pc, email_text, email_tokens, X_spam, spam_prediction,
                 X_multilabel, response, log>>

\* one `with open(...) as f: self.<attr> = pickle.load(f)` that succeeds; after
\* the fourth, __init__ returns and the module-level name is bound
LoadArtifact ==
    /\ proc = "starting"
    /\ loadIdx \in 1..Len(Artifacts)
    /\ disk[loadIdx].status = "ok"
    /\ assets' = [assets EXCEPT ![Attrs[loadIdx]] = disk[loadIdx].obj]
    /\ loadIdx' = loadIdx + 1
    /\ IF loadIdx = Len(Artifacts)
       THEN classifier' = "ready" /\ proc' = "serving"
       ELSE UNCHANGED <<classifier, proc>>
    /\ UNCHANGED <<disk, loadError, lemmatizer, requestVars, pureVars>>

\* one open()/pickle.load that raises: the exception leaves __init__ and
\* reaches the module-level try/except
LoadFails ==
    /\ proc = "starting"
    /\ loadIdx \in 1..Len(Artifacts)
    /\ disk[loadIdx].status # "ok"
    /\ loadError' = LoadException(loadIdx)
    /\ classifier' = StartupOutcome(LoadException(loadIdx)).classifier
    /\ proc' = StartupOutcome(LoadException(loadIdx)).proc
    /\ UNCHANGED <<disk, loadIdx, assets, lemmatizer, requestVars, pureVars>>

startupVars == <<disk, proc, loadIdx, assets, classifier, loadError, lemmatizer>>

\* classify_email when classifier is None
RejectUnavailable(c, t) ==
    /\ proc = "serving"
    /\ pc[c] = "idle"
    /\ classifier = "None"
    /\ email_text' = [email_text EXCEPT ![c] = t]
    /\ response' = [response EXCEPT ![c] = AssetsUnavailable]
    /\ pc' = [pc EXCEPT ![c] = "done"]
    /\ UNCHANGED <<startupVars, email_tokens, X_spam, spam_prediction,
                   X_multilabel, log, pureVars>>

\* classify_email calls classifier.classify(input.email_text)
Receive(c, t) ==
    /\ proc = "serving"
    /\ pc[c] = "idle"
    /\ classifier = "ready"
    /\ email_text' = [email_text EXCEPT ![c] = t]
    /\ pc' = [pc EXCEPT ![c] = "preprocess"]
    /\ UNCHANGED <<startupVars, email_tokens, X_spam, spam_prediction,
                   X_multilabel, response, log, pureVars>>

\* email_tokens = self._preprocess_email(email_text)
Preprocess(c) ==
    /\ pc[c] = "preprocess"
    /\ email_tokens' = [email_tokens EXCEPT ![c] = _preprocess_email(lemmatizer, email_text[c])]
    /\ log' = [log EXCEPT ![c] = Append(@, "preprocess")]
    /\ pc' = [pc EXCEPT ![c] = "spam_vec"]
    /\ UNCHANGED <<startupVars, email_text, X_spam, spam_prediction,
                   X_multilabel, response, pureVars>>

\* X_spam = self.spam_vec.transform([email_tokens])
SpamVectorize(c) ==
    /\ pc[c] = "spam_vec"
    /\ log' = [log EXCEPT ![c] = Append(@, "spam_vec")]
    /\ IF assets.spam_vec.type = "vectorizer"
       THEN /\ X_spam' = [X_spam EXCEPT ![c] = transform(assets.spam_vec, email_tokens[c])]
            /\ pc' = [pc EXCEPT ![c] = "spam_clf"]
            /\ UNCHANGED response
       ELSE /\ response' = [response EXCEPT ![c] = ExceptionResponse("AttributeError")]
            /\ pc' = [pc EXCEPT ![c] = "done"]
            /\ UNCHANGED X_spam
    /\ UNCHANGED <<startupVars, email_text, email_tokens, spam_prediction,
                   X_multilabel, pureVars>>

\* spam_prediction = self.spam_clf.predict(X_spam)[0] and the branch on it
SpamPredict(c) ==
    /\ pc[c] = "spam_clf"
    /\ log' = [log EXCEPT ![c] = Append(@, "spam_clf")]
    /\ IF assets.spam_clf.type = "model"
       THEN LET pred == predict(assets.spam_clf, X_spam[c])
            IN  /\ spam_prediction' = [spam_prediction EXCEPT ![c] = pred]
                /\ IF AfterSpam(pred) = "return"
                   THEN /\ response' = [response EXCEPT ![c] = SpamResult]
                        /\ pc' = [pc EXCEPT ![c] = "done"]
                   ELSE /\ pc' = [pc EXCEPT ![c] = "ml_vec"]
                        /\ UNCHANGED response
       ELSE /\ response' = [response EXCEPT ![c] = ExceptionResponse("AttributeError")]
            /\ pc' = [pc EXCEPT ![c] = "done"]
            /\ UNCHANGED spam_prediction
    /\ UNCHANGED <<startupVars, email_text, email_tokens, X_spam,
                   X_multilabel, pureVars>>

\* X_multilabel = self.ml_vec.transform([email_tokens])
TopicVectorize(c) ==
    /\ pc[c] = "ml_vec"
    /\ log' = [log EXCEPT ![c] = Append(@, "ml_vec")]
    /\ IF assets.ml_vec.type = "vectorizer"
       THEN /\ X_multilabel' = [X_multilabel EXCEPT ![c] =
                                    transform(assets.ml_vec, TopicStageInput(c))]
            /\ pc' = [pc EXCEPT ![c] = "ml_clf"]
            /\ UNCHANGED response
       ELSE /\ response' = [response EXCEPT ![c] = ExceptionResponse("AttributeError")]
            /\ pc' = [pc EXCEPT ![c] = "done"]
            /\ UNCHANGED X_multilabel
    /\ UNCHANGED <<startupVars, email_text, email_tokens, X_spam,
                   spam_prediction, pureVars>>

\* y_pred_proba = self.ml_clf.predict_proba(X_multilabel), thresholding,
\* fallback and the final return
TopicPredict(c) ==
    /\ pc[c] = "ml_clf"
    /\ log' = [log EXCEPT ![c] = Append(@, "ml_clf")]
    /\ IF assets.ml_clf.type = "model"
       THEN response' = [response EXCEPT ![c] =
                            ClassifyReturn(spam_prediction[c],
                                           predict(assets.ml_clf, X_multilabel[c]))]
       ELSE response' = [response EXCEPT ![c] = ExceptionResponse("AttributeError")]
    /\ pc' = [pc EXCEPT ![c] = "done"]
    /\ UNCHANGED <<startupVars, email_text, email_tokens, X_spam,
                   spam_prediction, X_multilabel, pureVars>>

\* the response is sent and the call frame is gone
Respond(c) ==
    /\ pc[c] = "done"
    /\ pc' = [pc EXCEPT ![c] = "idle"]
    /\ email_text' = [email_text EXCEPT ![c] = Text(<<>>)]
    /\ email_tokens' = [email_tokens EXCEPT ![c] = <<>>]
    /\ X_spam' = [X_spam EXCEPT ![c] = Unset]
    /\ spam_prediction' = [spam_prediction EXCEPT ![c] = 0]
    /\ X_multilabel' = [X_multilabel EXCEPT ![c] = Unset]
    /\ response' = [response EXCEPT ![c] = NoResponse]
    /\ log' = [log EXCEPT ![c] = <<>>]
    /\ UNCHANGED <<startupVars, pureVars>>

Next ==
    \/ LoadArtifact
    \/ LoadFails
    \/ \E c \in Clients, t \in EmailInputs : RejectUnavailable(c, t)
    \/ \E c \in Clients, t \in EmailInputs : Receive(c, t)
    \/ \E c \in Clients : Preprocess(c)
    \/ \E c \in Clients : SpamVectorize(c)
    \/ \E c \in Clients : SpamPredict(c)
    \/ \E c \in Clients : TopicVectorize(c)
    \/ \E c \in Clients : TopicPredict(c)
    \/ \E c \in Clients : Respond(c)

Spec == Init /\ [][Next]_vars

-----------------------------------------------------------------------------
(* Properties *)

ResultLabels == ret.detailed_labels
Proba == arg.y_pred_proba
ClassIndex(name) == CHOOSE i \in Classes : MULTILABEL_CLASSES[i] = name
Labelled(i) == \E k \in 1..Len(ResultLabels) : ResultLabels[k] = MULTILABEL_CLASSES[i]

\* C1: in every result classify returns, detailed_labels is empty exactly
\* when primary_classification is "Spam"; a "No-Spam" result carries at
\* least one label, whatever the text, the spam decision and the
\* probability vector.
C1_LabelsEmptyIffSpam ==
    phase = "done" =>
        /\ ret.primary_classification \in {"Spam", "No-Spam"}
        /\ (ret.primary_classification = "Spam") <=> (arg.spam_prediction = 1)
        /\ (ResultLabels = <<>>) <=> (ret.primary_classification = "Spam")
        /\ ret.primary_classification = "No-Spam" => Len(ResultLabels) >= 1

C1_Witness ==
    /\ phase = "done"
    /\ arg.spam_prediction = 0
    /\ \A i \in Classes : Proba[i] < THRESHOLD
    /\ Len(ResultLabels) >= 1

\* C2: on a No-Spam e-mail with at least one category at or above 0.30, the
\* returned labels are exactly the categories whose probability is >= 0.30
\* (0.30 itself included), named by schema position and in schema order.
C2_ThresholdLabels ==
    (/\ phase = "done"
     /\ arg.spam_prediction = 0
     /\ \E i \in Classes : Proba[i] >= THRESHOLD)
    => /\ \A i \in Classes : Labelled(i) <=> Proba[i] >= THRESHOLD
       /\ \A k \in 1..Len(ResultLabels) :
             \E i \in Classes : ResultLabels[k] = MULTILABEL_CLASSES[i]
       /\ \A k \in 1..(Len(ResultLabels) - 1) :
             ClassIndex(ResultLabels[k]) < ClassIndex(ResultLabels[k + 1])

C2_Witness ==
    /\ phase = "done"
    /\ arg.spam_prediction = 0
    /\ \E i \in Classes : Proba[i] = THRESHOLD /\ Labelled(i)
    /\ \E i \in Classes : Proba[i] = THRESHOLD - 1 /\ ~Labelled(i)

\* C3: on a No-Spam e-mail with every category below 0.30, exactly one label
\* is returned: the category of maximum probability, and among several
\* categories at that maximum the one of lowest schema index.
C3_FallbackArgmax ==
    (/\ phase = "done"
     /\ arg.spam_prediction = 0
     /\ \A i \in Classes : Proba[i] < THRESHOLD)
    => \E m \in Classes :
          /\ ResultLabels = <<MULTILABEL_CLASSES[m]>>
          /\ \A j \in Classes : Proba[j] <= Proba[m]
          /\ \A j \in Classes : j < m => Proba[j] < Proba[m]

C3_Witness ==
    /\ phase = "done"
    /\ arg.spam_prediction = 0
    /\ \A i \in Classes : Proba[i] < THRESHOLD
    /\ \E m, n \in Classes :
          /\ m < n
          /\ Proba[m] = Proba[n]
          /\ \A j \in Classes : Proba[j] <= Proba[m]
          /\ ResultLabels = <<MULTILABEL_CLASSES[m]>>

StageOrder == <<"preprocess", "spam_vec", "spam_clf", "ml_vec", "ml_clf">>
IsPrefix(s, t) == Len(s) <= Len(t) /\ \A i \in 1..Len(s) : s[i] = t[i]

\* C4: within one classify call the stages run in the order preprocess (once),
\* spam vectorizer, spam model, then the branch; the topic vectorizer and the
\* topic model are invoked only after the spam stage answered No-Spam, never
\* in a call whose spam decision is Spam, which returns {"Spam", []} at once.
C4_StageOrder ==
    \A c \in Clients :
        /\ IsPrefix(log[c], StageOrder)
        /\ pc[c] \in {"spam_vec", "spam_clf", "ml_vec", "ml_clf"} =>
              Cardinality({i \in 1..Len(log[c]) : log[c][i] = "preprocess"}) = 1
        /\ Len(log[c]) > 3 => spam_prediction[c] = 0
        /\ spam_prediction[c] = 1 =>
              /\ log[c] = SubSeq(StageOrder, 1, 3)
              /\ pc[c] = "done"
              /\ response[c] = SpamResult
        /\ response[c] = SpamResult => log[c] = SubSeq(StageOrder, 1, 3)

C4_Witness ==
    \E c, d \in Clients :
        /\ response[c] = SpamResult
        /\ log[d] = StageOrder

\* C5 (as claimed): whenever asset loading failed, for whatever reason, the
\* process is still up and every answered request carries the
\* assets-unavailable error with status 500.
C5_FailedLoadAlwaysReported ==
    loadError # NoError =>
        /\ proc # "crashed"
        /\ \A c \in Clients : pc[c] = "done" => response[c] = AssetsUnavailable

AllLoaded == \A i \in 1..Len(Attrs) : assets[Attrs[i]] # Unset

\* C6: loading happens before any request is served and no classify call
\* runs against a partially loaded set: wherever classify is about to read
\* an asset all four are loaded, and a load that failed, even after loading
\* some of the four, leaves no usable classifier.
C6_NoPartialAssets ==
    /\ \A c \in Clients : pc[c] # "idle" => proc = "serving" /\ classifier # "unbound"
    /\ \A c \in Clients :
          pc[c] \in {"preprocess", "spam_vec", "spam_clf", "ml_vec", "ml_clf"} =>
              AllLoaded /\ classifier = "ready"
    /\ classifier = "ready" => AllLoaded /\ loadError = NoError
    /\ loadError # NoError => classifier # "ready"

C6_Witness ==
    /\ \E c \in Clients : pc[c] = "ml_clf"
    /\ AllLoaded

\* what one call on text t returns when it runs alone on the artifacts as
\* they are on disk; Raised when a stage raises
Raised == [raised |-> TRUE]
Solo(t) ==
    LET ts == _preprocess_email(lemmatizer, t)
    IN  IF disk[1].obj.type # "vectorizer" \/ disk[2].obj.type # "model" THEN Raised
        ELSE IF disk[2].obj.table[transform(disk[1].obj, ts)] = 1 THEN SpamResult
        ELSE IF disk[3].obj.type # "vectorizer" \/ disk[4].obj.type # "model" THEN Raised
        ELSE NoSpamResult(disk[4].obj.table[transform(disk[3].obj, ts)])

AssetsIntact ==
    classifier = "ready" => \A i \in 1..Len(Attrs) : assets[Attrs[i]] = disk[i].obj

IsErrorObject(r) == DOMAIN r = {"error"} /\ r.error[2] = "AttributeError"

\* C7: a failure raised while vectorizing or scoring one request is caught at
\* the endpoint and returned as an error object with a message; it changes
\* nothing of the classifier or its assets, and every other request is
\* answered as if the failed one had never happened.
C7_ErrorsIsolated ==
    /\ AssetsIntact
    /\ proc = "serving" => classifier \in {"ready", "None"}
    /\ \A c \in Clients :
          (pc[c] = "done" /\ classifier = "ready") =>
              IF Solo(email_text[c]) = Raised
              THEN IsErrorObject(response[c])
              ELSE response[c] = Solo(email_text[c])

C7_Witness ==
    \E c, d \in Clients :
        /\ pc[c] = "done" /\ IsErrorObject(response[c])
        /\ pc[d] = "done" /\ response[d] = SpamResult

\* C8 (as claimed): every token preprocess returns has length > 2 and is no
\* stopword, for every lemmatizer; a non-string input returns the empty
\* sequence.
C8_ReturnedTokensFiltered ==
    phase = "done" =>
        /\ ~arg.isstr => ret = <<>>
        /\ \A i \in 1..Len(ret) : Len(ret[i]) > 2 /\ ret[i] \notin stop_words

\* C8 (amended): every token that enters the final lemmatization step has
\* length > 2 and is no stopword, and preprocess returns one lemma per such
\* token, in order (the lemma itself may be shorter or a stopword); a
\* non-string input returns the empty sequence.
C8_LemmatizedFromFiltered ==
    phase = "done" =>
        IF ~arg.isstr THEN ret = <<>>
        ELSE /\ Len(ret) = Len(tokens)
             /\ \A i \in 1..Len(tokens) :
                   /\ Len(tokens[i]) > 2
                   /\ tokens[i] \notin stop_words
                   /\ ret[i] \in {tokens[i], Detach(tokens[i])}
                   /\ ret[i] = tokens[i] => (Len(ret[i]) > 2 /\ ret[i] \notin stop_words)

C8_Witness ==
    /\ phase = "done"
    /\ arg.isstr
    /\ \E i \in 1..Len(ret) : ret[i] \in stop_words /\ Len(tokens[i]) > 2

SoloResponse(t) ==
    IF Solo(t) = Raised
    THEN [error |-> <<"An error occurred during classification: ", "AttributeError">>]
    ELSE Solo(t)

\* C9: classify writes neither the shared assets nor any other classifier
\* state; under every interleaving of concurrent calls each call returns
\* what it would return alone, and calls on the same text return the same.
C9_CallsIndependent ==
    /\ AssetsIntact
    /\ \A c \in Clients :
          /\ (pc[c] \in {"spam_vec", "spam_clf", "ml_vec", "ml_clf"}) =>
                email_tokens[c] = _preprocess_email(lemmatizer, email_text[c])
          /\ (pc[c] = "done" /\ classifier = "ready") =>
                response[c] = SoloResponse(email_text[c])
    /\ \A c, d \in Clients :
          (pc[c] = "done" /\ pc[d] = "done" /\ email_text[c] = email_text[d]) =>
              response[c] = response[d]

C9_Witness ==
    \E c, d \in Clients :
        /\ c # d
        /\ pc[c] = "done" /\ pc[d] = "ml_clf"
        /\ email_text[c] # email_text[d]
        /\ "primary_classification" \in DOMAIN response[c]
        /\ response[c].primary_classification = "No-Spam"

Unloadable == {i \in 1..Len(Artifacts) : disk[i].status # "ok"}
FirstUnloadable == CHOOSE i \in Unloadable : \A j \in Unloadable : i <= j

\* C10 (as claimed): loading fails with the asset-load error naming the
\* artifact whenever the first artifact that cannot be read, in the order
\* spam vectorizer, spam model, topic vectorizer, topic model, is absent or
\* unreadable, and succeeds only when all four are present and readable.
C10_LoadErrorNamesArtifact ==
    proc # "starting" =>
        /\ (Unloadable # {} /\ disk[FirstUnloadable].status \in {"missing", "unreadable"}) =>
              loadError = [type |-> "FileNotFoundError", names |-> Artifacts[FirstUnloadable]]
        /\ loadError = NoError => \A i \in 1..Len(Artifacts) : disk[i].status = "ok"

====
